---------------------------- MODULE Spec2Model ----------------------------
(***************************************************************************)
(* Model of src/gui.py: the four file handlers of FileProcessorGUI and     *)
(* their acceptance logic.                                                 *)
(*                                                                         *)
(*   jkam_h5_file_handler   JkamH5FileHandler      (the reference stream)  *)
(*   bin_handler            BinFileHandler         (FPGA .bin files)       *)
(*   gage_h5_file_handler   GageScopeH5FileHandler (GageScope .h5 files)   *)
(*   redpitaya_handler      RedPitayaFileHandler   (Red Pitaya .txt files) *)
(*                                                                         *)
(* Each variable is the handler object, a record of its fields under the   *)
(* names of the source.  Python lists and numpy arrays are sequences       *)
(* (Python index k is TLA+ index k+1); the two JKAM dicts are functions    *)
(* on their key sets.  File creation times are integer clock ticks, and    *)
(* the quotients and products the code forms with them (avg_time_gap,      *)
(* 0.2 * avg_time_gap, 0.3 * avg_time_gap) are exact rationals, kept as    *)
(* [num, den] in lowest terms.  The field stdout holds the shot numbers    *)
(* of the per-shot messages printed by the handler's last recompute, and   *)
(* the variable console holds the messages process_file printed when it    *)
(* returned before storing a file.                                         *)
(* The GUI tables, the plots and the FFT display are left out.             *)
(***************************************************************************)
EXTENDS Integers, Sequences, FiniteSets, TLC

VARIABLES jkam_h5_file_handler, bin_handler, gage_h5_file_handler,
          redpitaya_handler, console

vars == <<jkam_h5_file_handler, bin_handler, gage_h5_file_handler,
          redpitaya_handler, console>>

-----------------------------------------------------------------------------
(* Bounds of the exploration.                                              *)

\* JKAM files added at most
MaxJkam == 3
\* files added at most to each of the FPGA, GageScope and Red Pitaya handlers
MaxDep == 2
\* rows of one Red Pitaya file at most
MaxSamples == 2
\* files added in all at most
MaxFiles == 5
\* JKAM files added at most in the reference-only scenario
MaxScenario == 4
\* JKAM files added at most when only JKAM and Red Pitaya files are added
MaxJkamRp == 4
\* files added in all at most when only JKAM and Red Pitaya files are added
MaxFilesRp == 6
\* files added in all at most where every state is recomputed again
MaxFilesShort == 4
\* JKAM files added at most in the matching scenario
MaxScenarioJkam == 4
\* FPGA files added at most in the matching scenario
MaxScenarioBin == 3
\* files whose process_file returns before storing them at most
MaxFailed == 1
\* files stored in all at most where process_file can return early
MaxFilesFailed == 3

\* os.path.getctime of the JKAM files
JkamTimes == {0, 4, 10}
\* os.path.getctime of the FPGA and GageScope files
DepTimes == {0, 5}
\* first-column values of the Red Pitaya files
RpTimes == {0, 5}
\* os.path.getctime of the JKAM files in the reference-only scenario
ScenarioTimes == {0, 6, 10, 20, 31}
\* creation times in twentieths of a second: 0, 10, 20, 31 s for JKAM files
\* and 0.05, 10.1, 19.9 s for FPGA files
ScaledJkamTimes == {0, 200, 400, 620}
ScaledBinTimes == {1, 202, 398}

-----------------------------------------------------------------------------
(* Python values.                                                          *)

None == "None"

Abs(x) == IF x < 0 THEN -x ELSE x

RECURSIVE Gcd(_, _)
Gcd(a, b) == IF b = 0 THEN a ELSE Gcd(b, a % b)

\* the float a / b, b > 0, as an exact rational in lowest terms
Quot(a, b) ==
    LET g == Gcd(Abs(a), b)
    IN  [num |-> a \div g, den |-> b \div g]

Num(i) == [num |-> i, den |-> 1]

RSub(x, y) == Quot(x.num * y.den - y.num * x.den, x.den * y.den)

RMul(x, y) == Quot(x.num * y.num, x.den * y.den)

RAbs(x) == [num |-> Abs(x.num), den |-> x.den]

RGt(x, y) == x.num * y.den > y.num * x.den

RLeq(x, y) == x.num * y.den <= y.num * x.den

\* the literal 0.2 of the JKAM, FPGA and GageScope checks
Tol02 == [num |-> 1, den |-> 5]
\* the literal 0.3 of the Red Pitaya checks
Tol03 == [num |-> 3, den |-> 10]

\* np.min of a non-empty array
RECURSIVE NpMin(_)
NpMin(a) ==
    IF Len(a) = 1 THEN a[1]
    ELSE LET m == NpMin(Tail(a)) IN IF a[1] <= m THEN a[1] ELSE m

\* NpArgmin taking the last index of the minimum
NpArgminLast(a) ==
    (CHOOSE j \in 1..Len(a) :
        /\ a[j] = NpMin(a)
        /\ \A k \in (j + 1)..Len(a) : a[k] # NpMin(a)) - 1

\* np.argmin of a non-empty array: the first index (from 0) of the minimum
NpArgmin(a) ==
    (CHOOSE j \in 1..Len(a) :
        /\ a[j] = NpMin(a)
        /\ \A k \in 1..(j - 1) : a[k] # NpMin(a)) - 1

\* np.abs(array - t)
AbsDiffs(a, t) == [j \in 1..Len(a) |-> Abs(a[j] - t)]

\* list * n, np.zeros(n, ...)
Repeat(v, n) == [j \in 1..n |-> v]

\* dict[k] = v
DictSet(d, k, v) == (k :> v) @@ d

\* NextStreak that never counts up
NextStreakFlat(cumulative_data) == 1

\* (cumulative_data[-1] + 1) if cumulative_data else 1
NextStreak(cumulative_data) ==
    IF cumulative_data # <<>>
    THEN cumulative_data[Len(cumulative_data)] + 1
    ELSE 1

-----------------------------------------------------------------------------
(* JkamH5FileHandler                                                       *)

JkamInit ==
    [jkam_creation_time_array |-> <<>>,
     shots_dict               |-> <<>>,
     time_temp_dict           |-> <<>>,
     shots_num                |-> 0,
     start_time               |-> None,
     avg_time_gap             |-> Num(0),
     cumulative_data          |-> <<>>]

\* JkamSpacingOff with the boundary excluded: >= for >
JkamSpacingOffStrict(time_temp, prev_time_temp, avg_time_gap) ==
    ~RLeq(RAbs(RSub(RSub(Num(time_temp), Num(prev_time_temp)), avg_time_gap)),
          RMul(Tol02, avg_time_gap))
    \/ RAbs(RSub(RSub(Num(time_temp), Num(prev_time_temp)), avg_time_gap))
           = RMul(Tol02, avg_time_gap)

\* JkamSpacingOff without the previous creation time
JkamSpacingOffFromStart(time_temp, prev_time_temp, avg_time_gap) ==
    RGt(RAbs(RSub(Num(time_temp), avg_time_gap)), RMul(Tol02, avg_time_gap))

\* abs(time_temp - prev_time_temp - avg_time_gap) > 0.2 * avg_time_gap
JkamSpacingOff(time_temp, prev_time_temp, avg_time_gap) ==
    RGt(RAbs(RSub(RSub(Num(time_temp), Num(prev_time_temp)), avg_time_gap)),
        RMul(Tol02, avg_time_gap))

\* JkamProcessed reclassifying every stored shot by the new average gap
JkamProcessedRetro(self, file_ctime) ==
    LET times == Append(self.jkam_creation_time_array, file_ctime)
        first == self.shots_num = 0
        start_time == IF first THEN file_ctime ELSE self.start_time
        avg_time_gap ==
            IF first THEN self.avg_time_gap
            ELSE Quot(file_ctime - self.start_time, self.shots_num)
        shots_dict ==
            [j \in 0..self.shots_num |->
                IF j = 0 THEN TRUE
                ELSE ~JkamSpacingOff(times[j + 1], times[j], avg_time_gap)]
    IN  [jkam_creation_time_array |-> times,
         shots_dict     |-> shots_dict,
         time_temp_dict |-> DictSet(self.time_temp_dict, self.shots_num, file_ctime),
         shots_num      |-> self.shots_num + 1,
         start_time     |-> start_time,
         avg_time_gap   |-> avg_time_gap,
         cumulative_data |->
             Append(self.cumulative_data,
                    IF shots_dict[self.shots_num]
                    THEN NextStreak(self.cumulative_data) ELSE 0)]

\* the handler after process_file of a file whose creation time is file_ctime
JkamProcessed(self, file_ctime) ==
    LET times == Append(self.jkam_creation_time_array, file_ctime)
        first == self.shots_num = 0
        start_time == IF first THEN file_ctime ELSE self.start_time
        avg_time_gap ==
            IF first THEN self.avg_time_gap
            ELSE Quot(file_ctime - self.start_time, self.shots_num)
        space_correct ==
            IF first THEN TRUE
            ELSE ~JkamSpacingOff(file_ctime, times[self.shots_num], avg_time_gap)
    IN  [jkam_creation_time_array |-> times,
         shots_dict     |-> DictSet(self.shots_dict, self.shots_num, space_correct),
         time_temp_dict |-> DictSet(self.time_temp_dict, self.shots_num, file_ctime),
         shots_num      |-> self.shots_num + 1,
         start_time     |-> start_time,
         avg_time_gap   |-> avg_time_gap,
         cumulative_data |->
             Append(self.cumulative_data,
                    IF space_correct THEN NextStreak(self.cumulative_data) ELSE 0)]

-----------------------------------------------------------------------------
(* BinFileHandler                                                          *)

BinInit ==
    [fpga_creation_time_array |-> <<>>,
     mask_valid_data          |-> <<>>,
     jkam_fpga_matchlist      |-> <<>>,
     cumulative_data          |-> <<>>,
     color_array              |-> <<>>,
     start_time               |-> None,
     avg_time_gap             |-> Num(0),
     stdout                   |-> <<>>]

\* avg_time_gap of rerun_acceptance: the full span over num_shots - 1
BinAvgTimeGap(fpga_creation_time_array) ==
    LET num_shots == Len(fpga_creation_time_array)
    IN  IF num_shots <= 1 THEN Num(0)
        ELSE Quot(fpga_creation_time_array[num_shots] - fpga_creation_time_array[1],
                  num_shots - 1)

\* BinInitArrays without self.cumulative_data = []
BinInitArraysKeep(self, num_shots) ==
    [self EXCEPT !.mask_valid_data     = Repeat(FALSE, num_shots),
                 !.jkam_fpga_matchlist = Repeat(-1, num_shots),
                 !.color_array         = Repeat("r", num_shots),
                 !.stdout              = <<>>]

\* "Initialize arrays" of rerun_acceptance
BinInitArrays(self, num_shots) ==
    [self EXCEPT !.mask_valid_data     = Repeat(FALSE, num_shots),
                 !.jkam_fpga_matchlist = Repeat(-1, num_shots),
                 !.cumulative_data     = <<>>,
                 !.color_array         = Repeat("r", num_shots),
                 !.stdout              = <<>>]

\* BinAccepts without "and space_correct"
BinAcceptsAnySpacing(min_diff, avg_time_gap, space_correct) ==
    RLeq(Num(min_diff), RMul(Tol02, avg_time_gap))

\* BinAccepts with the boundary excluded: < for <=
BinAcceptsStrict(min_diff, avg_time_gap, space_correct) ==
    /\ RGt(RMul(Tol02, avg_time_gap), Num(min_diff))
    /\ space_correct

\* (min_diff <= 0.2 * self.avg_time_gap) and space_correct
BinAccepts(min_diff, avg_time_gap, space_correct) ==
    RLeq(Num(min_diff), RMul(Tol02, avg_time_gap)) /\ space_correct

\* self.avg_time_gap == 0
BinNoGap(avg_time_gap) == avg_time_gap = Num(0)

\* the match branch of rerun_acceptance for a shot that has JKAM data
BinMatch(self, jkam, shot_num) ==
    LET i == shot_num + 1
        jkam_time == jkam.time_temp_dict[shot_num]
        space_correct == jkam.shots_dict[shot_num]
    IN  IF BinNoGap(self.avg_time_gap)
        THEN IF space_correct
             THEN [self EXCEPT !.mask_valid_data[i] = TRUE,
                               !.color_array[i] = "g",
                               !.jkam_fpga_matchlist[i] = shot_num]
             ELSE [self EXCEPT !.mask_valid_data[i] = FALSE,
                               !.color_array[i] = "r",
                               !.jkam_fpga_matchlist[i] = -1]
        ELSE LET time_diffs == AbsDiffs(self.fpga_creation_time_array, jkam_time)
                 min_diff == NpMin(time_diffs)
             IN  IF BinAccepts(min_diff, self.avg_time_gap, space_correct)
                 THEN [self EXCEPT !.mask_valid_data[i] = TRUE,
                                   !.jkam_fpga_matchlist[i] = NpArgmin(time_diffs),
                                   !.color_array[i] = "g"]
                 ELSE [self EXCEPT !.mask_valid_data[i] = FALSE,
                                   !.jkam_fpga_matchlist[i] = -1,
                                   !.color_array[i] = "r",
                                   !.stdout = Append(@, shot_num)]

\* one pass of the loop body of rerun_acceptance
BinShot(self, jkam, shot_num) ==
    LET i == shot_num + 1
        judged ==
            IF /\ shot_num \in DOMAIN jkam.time_temp_dict
               /\ shot_num \in DOMAIN jkam.shots_dict
            THEN BinMatch(self, jkam, shot_num)
            ELSE [self EXCEPT !.mask_valid_data[i] = FALSE,
                              !.jkam_fpga_matchlist[i] = -1]
        new_val == IF judged.mask_valid_data[i]
                   THEN NextStreak(judged.cumulative_data)
                   ELSE 0
    IN  [judged EXCEPT !.cumulative_data = Append(@, new_val)]

\* for shot_num in range(num_shots), from shot_num on
RECURSIVE BinLoop(_, _, _)
BinLoop(self, jkam, shot_num) ==
    IF shot_num >= Len(self.fpga_creation_time_array) THEN self
    ELSE BinLoop(BinShot(self, jkam, shot_num), jkam, shot_num + 1)

rerun_acceptance(self, jkam) ==
    LET num_shots == Len(self.fpga_creation_time_array)
        gapped == [self EXCEPT
                     !.avg_time_gap = BinAvgTimeGap(self.fpga_creation_time_array)]
    IN  BinLoop(BinInitArrays(gapped, num_shots), jkam, 0)

\* BinProcessed with the creation time stored at the front of the list
BinProcessedFront(self, jkam, file_ctime) ==
    LET stored == [self EXCEPT
                     !.fpga_creation_time_array = <<file_ctime>> \o @]
        started == IF Len(stored.fpga_creation_time_array) = 1
                   THEN [stored EXCEPT !.start_time = file_ctime]
                   ELSE stored
    IN  rerun_acceptance(started, jkam)

\* the handler after process_file of a file whose creation time is file_ctime
BinProcessed(self, jkam, file_ctime) ==
    LET stored == [self EXCEPT !.fpga_creation_time_array = Append(@, file_ctime)]
        started == IF Len(stored.fpga_creation_time_array) = 1
                   THEN [stored EXCEPT !.start_time = file_ctime]
                   ELSE stored
    IN  rerun_acceptance(started, jkam)

-----------------------------------------------------------------------------
(* GageScopeH5FileHandler                                                  *)

GageInit ==
    [gage_creation_time_array |-> <<>>,
     mask_valid_data          |-> <<>>,
     jkam_gage_matchlist      |-> <<>>,
     cumulative_data          |-> <<>>,
     color_array              |-> <<>>,
     start_time               |-> None,
     avg_time_gap             |-> Num(0),
     stdout                   |-> <<>>]

\* GageAvgTimeGap with the span over num_shots
GageAvgTimeGapPerShot(gage_creation_time_array) ==
    LET num_shots == Len(gage_creation_time_array)
    IN  IF num_shots <= 1 THEN Num(0)
        ELSE Quot(gage_creation_time_array[num_shots] - gage_creation_time_array[1],
                  num_shots)

\* avg_time_gap of rerun_acceptance_gage
GageAvgTimeGap(gage_creation_time_array) ==
    LET num_shots == Len(gage_creation_time_array)
    IN  IF num_shots <= 1 THEN Num(0)
        ELSE Quot(gage_creation_time_array[num_shots] - gage_creation_time_array[1],
                  num_shots - 1)

\* "Initialize arrays" of rerun_acceptance_gage
GageInitArrays(self, num_shots) ==
    [self EXCEPT !.mask_valid_data     = Repeat(FALSE, num_shots),
                 !.jkam_gage_matchlist = Repeat(-1, num_shots),
                 !.cumulative_data     = <<>>,
                 !.color_array         = Repeat("r", num_shots),
                 !.stdout              = <<>>]

\* (min_diff <= 0.2 * self.avg_time_gap) and space_correct
GageAccepts(min_diff, avg_time_gap, space_correct) ==
    RLeq(Num(min_diff), RMul(Tol02, avg_time_gap)) /\ space_correct

\* GageNoGap never taken: the distance test applied to a lone shot too
GageNoGapNever(avg_time_gap) == FALSE

\* self.avg_time_gap == 0
GageNoGap(avg_time_gap) == avg_time_gap = Num(0)

\* the match branch of rerun_acceptance_gage for a shot that has JKAM data
GageMatch(self, jkam, shot_num) ==
    LET i == shot_num + 1
        jkam_time == jkam.time_temp_dict[shot_num]
        space_correct == jkam.shots_dict[shot_num]
    IN  IF GageNoGap(self.avg_time_gap)
        THEN IF space_correct
             THEN [self EXCEPT !.mask_valid_data[i] = TRUE,
                               !.color_array[i] = "g",
                               !.jkam_gage_matchlist[i] = shot_num]
             ELSE [self EXCEPT !.mask_valid_data[i] = FALSE,
                               !.color_array[i] = "r",
                               !.jkam_gage_matchlist[i] = -1]
        ELSE LET time_diffs == AbsDiffs(self.gage_creation_time_array, jkam_time)
                 min_diff == NpMin(time_diffs)
             IN  IF GageAccepts(min_diff, self.avg_time_gap, space_correct)
                 THEN [self EXCEPT !.mask_valid_data[i] = TRUE,
                                   !.jkam_gage_matchlist[i] = NpArgmin(time_diffs),
                                   !.color_array[i] = "g"]
                 ELSE [self EXCEPT !.mask_valid_data[i] = FALSE,
                                   !.jkam_gage_matchlist[i] = -1,
                                   !.color_array[i] = "r",
                                   !.stdout = Append(@, shot_num)]

\* one pass of the loop body of rerun_acceptance_gage
GageShot(self, jkam, shot_num) ==
    LET i == shot_num + 1
        judged ==
            IF /\ shot_num \in DOMAIN jkam.time_temp_dict
               /\ shot_num \in DOMAIN jkam.shots_dict
            THEN GageMatch(self, jkam, shot_num)
            ELSE [self EXCEPT !.mask_valid_data[i] = FALSE,
                              !.jkam_gage_matchlist[i] = -1]
        new_val == IF judged.mask_valid_data[i]
                   THEN NextStreak(judged.cumulative_data)
                   ELSE 0
    IN  [judged EXCEPT !.cumulative_data = Append(@, new_val)]

\* for shot_num in range(num_shots), from shot_num on
RECURSIVE GageLoop(_, _, _)
GageLoop(self, jkam, shot_num) ==
    IF shot_num >= Len(self.gage_creation_time_array) THEN self
    ELSE GageLoop(GageShot(self, jkam, shot_num), jkam, shot_num + 1)

rerun_acceptance_gage(self, jkam) ==
    LET num_shots == Len(self.gage_creation_time_array)
        gapped == [self EXCEPT
                     !.avg_time_gap = GageAvgTimeGap(self.gage_creation_time_array)]
    IN  GageLoop(GageInitArrays(gapped, num_shots), jkam, 0)

\* the handler after process_file of a file whose creation time is file_ctime
GageProcessed(self, jkam, file_ctime) ==
    LET stored == [self EXCEPT !.gage_creation_time_array = Append(@, file_ctime)]
        started == IF Len(stored.gage_creation_time_array) = 1
                   THEN [stored EXCEPT !.start_time = file_ctime]
                   ELSE stored
    IN  rerun_acceptance_gage(started, jkam)

-----------------------------------------------------------------------------
(* RedPitayaFileHandler                                                    *)

RpInit ==
    [rp_times_list      |-> <<>>,
     cumulative_data    |-> <<>>,
     color_array        |-> <<>>,
     mask_valid_data_rp |-> <<>>,
     jkam_rp_matchlist  |-> <<>>,
     stdout             |-> <<>>]

\* the arrays rerun_acceptance_rp creates before its loop
RpInitArrays(self, num_shots) ==
    [self EXCEPT !.mask_valid_data_rp = Repeat(FALSE, num_shots),
                 !.jkam_rp_matchlist  = Repeat(-1, num_shots),
                 !.color_array        = Repeat("r", num_shots),
                 !.cumulative_data    = <<>>,
                 !.stdout             = <<>>]

\* abs(time_temp - jkam_ctimes[shot_num - 1] - jkam_avg_time_gap)
\*     > 0.3 * jkam_avg_time_gap
RpLeftOff(jkam, shot_num) ==
    LET time_temp == jkam.time_temp_dict[shot_num]
        left == jkam.jkam_creation_time_array[shot_num]
    IN  RGt(RAbs(RSub(RSub(Num(time_temp), Num(left)), jkam.avg_time_gap)),
            RMul(Tol03, jkam.avg_time_gap))

\* abs(-time_temp + jkam_ctimes[shot_num + 1] - jkam_avg_time_gap)
\*     > 0.3 * jkam_avg_time_gap
RpRightOff(jkam, shot_num) ==
    LET time_temp == jkam.time_temp_dict[shot_num]
        right == jkam.jkam_creation_time_array[shot_num + 2]
    IN  RGt(RAbs(RSub(RSub(Num(right), Num(time_temp)), jkam.avg_time_gap)),
            RMul(Tol03, jkam.avg_time_gap))

\* RpSpaceCorrect without the check of the left neighbour
RpSpaceCorrectRightOnly(jkam, shot_num) ==
    LET total_jkam_shots == Len(jkam.jkam_creation_time_array)
    IN  ~(/\ shot_num < total_jkam_shots - 1
          /\ RpRightOff(jkam, shot_num))

\* the local space_correct of rerun_acceptance_rp: the two neighbour checks
RpSpaceCorrect(jkam, shot_num) ==
    LET total_jkam_shots == Len(jkam.jkam_creation_time_array)
        left_ok == ~(/\ shot_num > 0
                     /\ shot_num < total_jkam_shots
                     /\ RpLeftOff(jkam, shot_num))
        right_ok == ~(/\ shot_num < total_jkam_shots - 1
                      /\ RpRightOff(jkam, shot_num))
    IN  left_ok /\ right_ok

\* min_diff <= 0.3 * jkam_avg_time_gap
RpNear(min_diff, jkam_avg_time_gap) ==
    RLeq(Num(min_diff), RMul(Tol03, jkam_avg_time_gap))

\* the loop body of rerun_acceptance_rp after its "continue", for a shot that
\* has JKAM data, up to the append to cumulative_data
RpMatch(self, jkam, shot_num) ==
    LET i == shot_num + 1
        time_temp == jkam.time_temp_dict[shot_num]
        jkam_space_correct == jkam.shots_dict[shot_num]
        space_correct == RpSpaceCorrect(jkam, shot_num)
        rp_creation_time_array == self.rp_times_list[i]
        diffs == AbsDiffs(rp_creation_time_array, time_temp)
        rejected == [self EXCEPT !.stdout = Append(@, shot_num),
                                 !.mask_valid_data_rp[i] = FALSE,
                                 !.color_array[i] = "r",
                                 !.jkam_rp_matchlist[i] = -1]
    IN  IF jkam_space_correct /\ space_correct
        THEN IF RpNear(NpMin(diffs), jkam.avg_time_gap)
             THEN [self EXCEPT !.mask_valid_data_rp[i] = TRUE,
                               !.jkam_rp_matchlist[i] = NpArgmin(diffs),
                               !.color_array[i] = "g"]
             ELSE rejected
        ELSE rejected

\* one pass of the loop body of rerun_acceptance_rp; a shot without JKAM data
\* leaves the loop body at "continue", before the append to cumulative_data
RpShot(self, jkam, shot_num) ==
    LET i == shot_num + 1
    IN  IF \/ shot_num \notin DOMAIN jkam.time_temp_dict
           \/ shot_num \notin DOMAIN jkam.shots_dict
        THEN [self EXCEPT !.mask_valid_data_rp[i] = FALSE,
                          !.color_array[i] = "r",
                          !.jkam_rp_matchlist[i] = -1]
        ELSE LET judged == RpMatch(self, jkam, shot_num)
                 new_val == IF judged.mask_valid_data_rp[i]
                            THEN NextStreak(judged.cumulative_data)
                            ELSE 0
             IN  [judged EXCEPT !.cumulative_data = Append(@, new_val)]

\* for shot_num in range(num_shots), from shot_num on
RECURSIVE RpLoop(_, _, _)
RpLoop(self, jkam, shot_num) ==
    IF shot_num >= Len(self.rp_times_list) THEN self
    ELSE RpLoop(RpShot(self, jkam, shot_num), jkam, shot_num + 1)

rerun_acceptance_rp(self, jkam) ==
    RpLoop(RpInitArrays(self, Len(self.rp_times_list)), jkam, 0)

\* the handler after process_file of a file whose first column is
\* rp_creation_time_array
RpProcessed(self, jkam, rp_creation_time_array) ==
    rerun_acceptance_rp(
        [self EXCEPT !.rp_times_list = Append(@, rp_creation_time_array)], jkam)

-----------------------------------------------------------------------------
(* FileProcessorGUI.add_files: one file at a time, to the handler of its   *)
(* type.                                                                   *)

FilesAdded ==
    Len(jkam_h5_file_handler.jkam_creation_time_array)
    + Len(bin_handler.fpga_creation_time_array)
    + Len(gage_h5_file_handler.gage_creation_time_array)
    + Len(redpitaya_handler.rp_times_list)

\* the first columns a Red Pitaya file can hold: one row, or MaxSamples rows
RpFiles == [1..1 -> RpTimes] \cup [1..MaxSamples -> RpTimes]

\* JkamProcessFile that also re-runs the acceptance of the FPGA handler
JkamProcessFileRerun(file_ctime) ==
    /\ jkam_h5_file_handler' = JkamProcessed(jkam_h5_file_handler, file_ctime)
    /\ bin_handler' = rerun_acceptance(bin_handler, jkam_h5_file_handler')
    /\ UNCHANGED <<gage_h5_file_handler, redpitaya_handler, console>>

JkamProcessFile(file_ctime) ==
    /\ jkam_h5_file_handler' = JkamProcessed(jkam_h5_file_handler, file_ctime)
    /\ UNCHANGED <<bin_handler, gage_h5_file_handler, redpitaya_handler,
                   console>>

BinProcessFile(file_ctime) ==
    /\ bin_handler' = BinProcessed(bin_handler, jkam_h5_file_handler, file_ctime)
    /\ UNCHANGED <<jkam_h5_file_handler, gage_h5_file_handler, redpitaya_handler,
                   console>>

\* GageProcessFile that also writes its average gap into the JKAM handler
GageProcessFileWriting(file_ctime) ==
    /\ gage_h5_file_handler' =
           GageProcessed(gage_h5_file_handler, jkam_h5_file_handler, file_ctime)
    /\ jkam_h5_file_handler' =
           [jkam_h5_file_handler EXCEPT
              !.avg_time_gap = gage_h5_file_handler'.avg_time_gap]
    /\ UNCHANGED <<bin_handler, redpitaya_handler, console>>

GageProcessFile(file_ctime) ==
    /\ gage_h5_file_handler' =
           GageProcessed(gage_h5_file_handler, jkam_h5_file_handler, file_ctime)
    /\ UNCHANGED <<jkam_h5_file_handler, bin_handler, redpitaya_handler,
                   console>>

RpProcessFile(rp_creation_time_array) ==
    /\ redpitaya_handler' =
           RpProcessed(redpitaya_handler, jkam_h5_file_handler,
                       rp_creation_time_array)
    /\ UNCHANGED <<jkam_h5_file_handler, bin_handler, gage_h5_file_handler,
                   console>>

\* JkamReturned with the shot counted all the same
JkamReturnedCounted(self) == [self EXCEPT !.shots_num = @ + 1]

\* the handler after a process_file that returned from its except branch
JkamReturned(self) == self

BinReturned(self) == self

GageReturned(self) == self

\* the handler after a process_file that returned because the file does not
\* exist or because np.loadtxt raised
RpReturned(self) == self

\* what process_file of the Red Pitaya handler prints when it returns early
RpMessages == {"File does not exist", "Failed to load Red Pitaya file"}

\* os.path.getctime raises on a JKAM file
JkamUnreadable ==
    /\ Len(console) < MaxFailed
    /\ console' = Append(console, "Error accessing file time")
    /\ jkam_h5_file_handler' = JkamReturned(jkam_h5_file_handler)
    /\ UNCHANGED <<bin_handler, gage_h5_file_handler, redpitaya_handler>>

\* os.path.getctime raises on an FPGA file
BinUnreadable ==
    /\ Len(console) < MaxFailed
    /\ console' = Append(console, "Error accessing file time")
    /\ bin_handler' = BinReturned(bin_handler)
    /\ UNCHANGED <<jkam_h5_file_handler, gage_h5_file_handler, redpitaya_handler>>

\* os.path.getctime raises on a GageScope file
GageUnreadable ==
    /\ Len(console) < MaxFailed
    /\ console' = Append(console, "Error accessing file time")
    /\ gage_h5_file_handler' = GageReturned(gage_h5_file_handler)
    /\ UNCHANGED <<jkam_h5_file_handler, bin_handler, redpitaya_handler>>

\* a Red Pitaya file is missing or cannot be loaded
RpUnloadable ==
    /\ Len(console) < MaxFailed
    /\ \E message \in RpMessages : console' = Append(console, message)
    /\ redpitaya_handler' = RpReturned(redpitaya_handler)
    /\ UNCHANGED <<jkam_h5_file_handler, bin_handler, gage_h5_file_handler>>

\* a JKAM file is added, with a creation time of times, while fewer than
\* max_jkam JKAM files and fewer than max_files files in all have been added
AddJkam(times, max_jkam, max_files) ==
    /\ FilesAdded < max_files
    /\ jkam_h5_file_handler.shots_num < max_jkam
    /\ \E file_ctime \in times : JkamProcessFile(file_ctime)

AddBin(max_files) ==
    /\ FilesAdded < max_files
    /\ Len(bin_handler.fpga_creation_time_array) < MaxDep
    /\ \E file_ctime \in DepTimes : BinProcessFile(file_ctime)

AddGage(max_files) ==
    /\ FilesAdded < max_files
    /\ Len(gage_h5_file_handler.gage_creation_time_array) < MaxDep
    /\ \E file_ctime \in DepTimes : GageProcessFile(file_ctime)

AddRp(max_files) ==
    /\ FilesAdded < max_files
    /\ Len(redpitaya_handler.rp_times_list) < MaxDep
    /\ \E rp_creation_time_array \in RpFiles :
           RpProcessFile(rp_creation_time_array)

Init ==
    /\ jkam_h5_file_handler = JkamInit
    /\ bin_handler = BinInit
    /\ gage_h5_file_handler = GageInit
    /\ redpitaya_handler = RpInit
    /\ console = <<>>

\* files of the four types are added in any order
Next ==
    \/ AddJkam(JkamTimes, MaxJkam, MaxFiles)
    \/ AddBin(MaxFiles)
    \/ AddGage(MaxFiles)
    \/ AddRp(MaxFiles)

Spec == Init /\ [][Next]_vars

\* files of the four types are added in any order, fewer of them
NextShort ==
    \/ AddJkam(JkamTimes, MaxJkam, MaxFilesShort)
    \/ AddBin(MaxFilesShort)
    \/ AddGage(MaxFilesShort)
    \/ AddRp(MaxFilesShort)

SpecShort == Init /\ [][NextShort]_vars

\* only JKAM and Red Pitaya files are added, more of them
NextJkamRp ==
    \/ AddJkam(JkamTimes, MaxJkamRp, MaxFilesRp)
    \/ AddRp(MaxFilesRp)

SpecJkamRp == Init /\ [][NextJkamRp]_vars

\* an FPGA file is added, with a creation time of times, while fewer than
\* max_bin FPGA files have been added
AddBinOf(times, max_bin) ==
    /\ Len(bin_handler.fpga_creation_time_array) < max_bin
    /\ \E file_ctime \in times : BinProcessFile(file_ctime)

\* JKAM and FPGA files are added in any order, with the scaled creation times
NextMatching ==
    \/ AddJkam(ScaledJkamTimes, MaxScenarioJkam, MaxScenarioJkam + MaxScenarioBin)
    \/ AddBinOf(ScaledBinTimes, MaxScenarioBin)

SpecMatching == Init /\ [][NextMatching]_vars

\* an FPGA file and a GageScope file of one creation time are added, one
\* after the other
BinGageProcessFile(file_ctime) ==
    /\ bin_handler' = BinProcessed(bin_handler, jkam_h5_file_handler, file_ctime)
    /\ gage_h5_file_handler' =
           GageProcessed(gage_h5_file_handler, jkam_h5_file_handler, file_ctime)
    /\ UNCHANGED <<jkam_h5_file_handler, redpitaya_handler, console>>

AddBinGage ==
    /\ Len(bin_handler.fpga_creation_time_array) < MaxDep
    /\ Len(gage_h5_file_handler.gage_creation_time_array) < MaxDep
    /\ \E file_ctime \in DepTimes : BinGageProcessFile(file_ctime)

\* JKAM files are added in any order with pairs of an FPGA and a GageScope
\* file
NextSideBySide ==
    \/ AddJkam(JkamTimes, MaxJkam, MaxJkam + 2 * MaxDep)
    \/ AddBinGage

SpecSideBySide == Init /\ [][NextSideBySide]_vars

\* files of the four types are added in any order, and process_file can
\* return early on some of them
NextFailed ==
    \/ AddJkam(JkamTimes, MaxJkam, MaxFilesFailed)
    \/ AddBin(MaxFilesFailed)
    \/ AddGage(MaxFilesFailed)
    \/ AddRp(MaxFilesFailed)
    \/ JkamUnreadable
    \/ BinUnreadable
    \/ GageUnreadable
    \/ RpUnloadable

SpecFailed == Init /\ [][NextFailed]_vars

\* only JKAM files are added, with the creation times of ScenarioTimes
NextScenario == AddJkam(ScenarioTimes, MaxScenario, MaxScenario)

SpecScenario == Init /\ [][NextScenario]_vars

-----------------------------------------------------------------------------
(* Properties.                                                             *)

jkam == jkam_h5_file_handler
fpga == bin_handler
gage == gage_h5_file_handler
rp   == redpitaya_handler

\* the JKAM acceptance mask as a sequence: shots_dict[0], shots_dict[1], ...
JkamMask == [i \in 1..jkam.shots_num |-> jkam.shots_dict[i - 1]]

\* C1: each stream's cumulative series has exactly as many entries as the
\* stream has ingested shots, a Red Pitaya shot without a JKAM counterpart
\* included
C1_CumulativeLength ==
    /\ Len(jkam.cumulative_data) = jkam.shots_num
    /\ Len(fpga.cumulative_data) = Len(fpga.fpga_creation_time_array)
    /\ Len(gage.cumulative_data) = Len(gage.gage_creation_time_array)
    /\ Len(rp.cumulative_data) = Len(rp.rp_times_list)

\* a shot, of num_shots, that the recompute found without a JKAM counterpart
\* is rejected, unmatched and has the cumulative value 0
NoCounterpartRejected(num_shots, shots_dict, mask, matchlist, cumulative) ==
    \A s \in 0..(num_shots - 1) :
        s \notin DOMAIN shots_dict =>
            /\ mask[s + 1] = FALSE
            /\ matchlist[s + 1] = -1
            /\ (s + 1) \in DOMAIN cumulative
            /\ cumulative[s + 1] = 0

\* C2: after a recompute of any dependent stream, every shot s of it for
\* which JKAM then holds no shot s has mask[s] = false, matchIndex[s] = -1
\* and cumulative[s] = 0
C2_NoCounterpart ==
    [][/\ bin_handler' # bin_handler =>
            NoCounterpartRejected(Len(fpga.fpga_creation_time_array)',
                                  jkam.shots_dict',
                                  fpga.mask_valid_data',
                                  fpga.jkam_fpga_matchlist',
                                  fpga.cumulative_data')
       /\ gage_h5_file_handler' # gage_h5_file_handler =>
            NoCounterpartRejected(Len(gage.gage_creation_time_array)',
                                  jkam.shots_dict',
                                  gage.mask_valid_data',
                                  gage.jkam_gage_matchlist',
                                  gage.cumulative_data')
       /\ redpitaya_handler' # redpitaya_handler =>
            NoCounterpartRejected(Len(rp.rp_times_list)',
                                  jkam.shots_dict',
                                  rp.mask_valid_data_rp',
                                  rp.jkam_rp_matchlist',
                                  rp.cumulative_data')]_vars

\* |t[i] - t[i-1] - (t[i] - t[0]) / i| <= 0.2 * (t[i] - t[0]) / i, in integers
\* (t a sequence: event i is t[i + 1])
WithinFifth(t, i) ==
    5 * Abs(i * (t[i + 1] - t[i]) - (t[i + 1] - t[1])) <= t[i + 1] - t[1]

\* C3: the first JKAM event sets start_time and is spaceCorrect; event i >= 1
\* sets avgGap = (timestamp - startTime) / i and is spaceCorrect exactly when
\* |timestamp - prevTime - avgGap| <= 0.2 * avgGap; ingesting [0, 10, 20, 31]
\* yields [true, true, true, true]
C3_ReferenceClassification ==
    LET t == jkam.jkam_creation_time_array
        n == jkam.shots_num
    IN  /\ n = Len(t)
        /\ n >= 1 => jkam.start_time = t[1] /\ jkam.shots_dict[0] = TRUE
        /\ n >= 2 => jkam.avg_time_gap.num * (n - 1)
                         = (t[n] - t[1]) * jkam.avg_time_gap.den
        /\ \A i \in 1..(n - 1) : jkam.shots_dict[i] = WithinFifth(t, i)
        /\ t = <<0, 10, 20, 31>> =>
               \A i \in 0..3 : jkam.shots_dict[i] = TRUE

C3_Witness ==
    /\ jkam.jkam_creation_time_array = <<0, 10, 20, 31>>
    /\ jkam.shots_dict = (0 :> TRUE) @@ (1 :> TRUE) @@ (2 :> TRUE) @@ (3 :> TRUE)

\* C4: once JKAM shot j is stored, its spaceCorrect value and its timestamp
\* never change, whichever stream ingests next
C4_NonRetroactive ==
    [][\A j \in DOMAIN jkam.shots_dict :
          /\ j \in DOMAIN jkam.shots_dict'
          /\ j \in DOMAIN jkam.time_temp_dict'
          /\ jkam.shots_dict'[j] = jkam.shots_dict[j]
          /\ jkam.time_temp_dict'[j] = jkam.time_temp_dict[j]
          /\ jkam.jkam_creation_time_array'[j + 1]
                 = jkam.jkam_creation_time_array[j + 1]]_vars

\* a stored shot is spaceCorrect although its gap is off by the current
\* average gap: a later event moved the average and the shot kept its value
C4_Witness ==
    \E j \in 1..(jkam.shots_num - 2) :
        /\ jkam.shots_dict[j] = TRUE
        /\ JkamSpacingOff(jkam.time_temp_dict[j], jkam.time_temp_dict[j - 1],
                          jkam.avg_time_gap)

\* the acceptance of a single-timestamp stream whose events are own, against
\* the JKAM shots, as the full-span rule states it (avgGap # 0)
FullSpanRule(own, avg_time_gap, mask, shots_dict, time_temp_dict) ==
    LET n == Len(own)
    IN  /\ n > 1 => avg_time_gap.num * (n - 1) = (own[n] - own[1]) * avg_time_gap.den
        /\ n <= 1 => avg_time_gap.num = 0
        /\ avg_time_gap.num # 0 =>
             \A s \in 0..(n - 1) :
                s \in DOMAIN shots_dict =>
                   mask[s + 1] =
                      (/\ shots_dict[s]
                       /\ \E j \in 1..n :
                             5 * (n - 1) * Abs(own[j] - time_temp_dict[s])
                                 <= own[n] - own[1])

\* C5: a recompute of the FPGA or the GageScope stream uses
\* avgGap = (own[n-1] - own[0]) / (n - 1) when n > 1 and, when avgGap # 0,
\* accepts a shot s that has a JKAM counterpart exactly when JKAM shot s is
\* spaceCorrect and the least |own[j] - refTime(s)| over all own events j is
\* <= 0.2 * avgGap
C5_FullSpanAcceptance ==
    [][/\ bin_handler' # bin_handler =>
            FullSpanRule(fpga.fpga_creation_time_array', fpga.avg_time_gap',
                         fpga.mask_valid_data', jkam.shots_dict',
                         jkam.time_temp_dict')
       /\ gage_h5_file_handler' # gage_h5_file_handler =>
            FullSpanRule(gage.gage_creation_time_array', gage.avg_time_gap',
                         gage.mask_valid_data', jkam.shots_dict',
                         jkam.time_temp_dict')]_vars

\* an FPGA shot accepted at the boundary distance 0.2 * avgGap, by an own
\* event other than its own
C5_Witness ==
    LET own == fpga.fpga_creation_time_array
        n == Len(own)
    IN  /\ n > 1
        /\ fpga.avg_time_gap.num # 0
        /\ \E s \in 0..(n - 1) :
              /\ fpga.mask_valid_data[s + 1]
              /\ fpga.jkam_fpga_matchlist[s + 1] # s
              /\ s \in DOMAIN jkam.time_temp_dict
              /\ \A j \in 1..n :
                    5 * (n - 1) * Abs(own[j] - jkam.time_temp_dict[s])
                        >= own[n] - own[1]

\* m (from 0) is the least index at which the array a is nearest to t
LeastNearest(a, t, m) ==
    /\ (m + 1) \in 1..Len(a)
    /\ \A k \in 1..Len(a) : Abs(a[m + 1] - t) <= Abs(a[k] - t)
    /\ \A k \in 1..m : Abs(a[k] - t) > Abs(a[m + 1] - t)

\* the match indices of a single-timestamp stream
SingleMatchRule(own, avg_time_gap, mask, matchlist, time_temp_dict) ==
    \A s \in 0..(Len(own) - 1) :
        /\ (matchlist[s + 1] = -1) <=> ~mask[s + 1]
        /\ mask[s + 1] =>
              /\ s \in DOMAIN time_temp_dict
              /\ IF avg_time_gap.num = 0
                 THEN matchlist[s + 1] = s
                 ELSE LeastNearest(own, time_temp_dict[s], matchlist[s + 1])

\* C6: for every dependent stream and shot s, matchIndex[s] = -1 exactly when
\* mask[s] is false; an accepted shot's matchIndex is the least index nearest
\* to refTime(s) in the own history (FPGA, GageScope, avgGap # 0) or in the
\* shot's own samples (Red Pitaya), and is s itself when avgGap = 0
C6_MatchIndex ==
    /\ SingleMatchRule(fpga.fpga_creation_time_array, fpga.avg_time_gap,
                       fpga.mask_valid_data, fpga.jkam_fpga_matchlist,
                       jkam.time_temp_dict)
    /\ SingleMatchRule(gage.gage_creation_time_array, gage.avg_time_gap,
                       gage.mask_valid_data, gage.jkam_gage_matchlist,
                       jkam.time_temp_dict)
    /\ \A s \in 0..(Len(rp.rp_times_list) - 1) :
          /\ (rp.jkam_rp_matchlist[s + 1] = -1) <=> ~rp.mask_valid_data_rp[s + 1]
          /\ rp.mask_valid_data_rp[s + 1] =>
                /\ s \in DOMAIN jkam.time_temp_dict
                /\ LeastNearest(rp.rp_times_list[s + 1], jkam.time_temp_dict[s],
                                rp.jkam_rp_matchlist[s + 1])

\* an accepted Red Pitaya shot of two equally near samples, and an FPGA shot
\* matched to another own event than its own
C6_Witness ==
    /\ \E s \in 0..(Len(rp.rp_times_list) - 1) :
          /\ rp.mask_valid_data_rp[s + 1]
          /\ Len(rp.rp_times_list[s + 1]) > 1
          /\ rp.rp_times_list[s + 1][1] = rp.rp_times_list[s + 1][2]
    /\ \E s \in 0..(Len(fpga.fpga_creation_time_array) - 1) :
          /\ fpga.mask_valid_data[s + 1]
          /\ fpga.jkam_fpga_matchlist[s + 1] # s

\* a stream of exactly one event whose JKAM counterpart is spaceCorrect
\* accepts it and matches it to itself
LoneShotAccepted(own, mask, matchlist, shots_dict) ==
    (/\ Len(own) = 1
     /\ 0 \in DOMAIN shots_dict
     /\ shots_dict[0] = TRUE) =>
        /\ mask[1] = TRUE
        /\ matchlist[1] = 0

\* C7: an FPGA or GageScope stream holding exactly one event, whose JKAM
\* counterpart (shot 0) exists with spaceCorrect = true, has mask[0] = true and
\* matchIndex[0] = 0 after its ingest, whatever the two timestamps
C7_LoneShot ==
    [][/\ bin_handler' # bin_handler =>
            LoneShotAccepted(fpga.fpga_creation_time_array',
                             fpga.mask_valid_data',
                             fpga.jkam_fpga_matchlist', jkam.shots_dict')
       /\ gage_h5_file_handler' # gage_h5_file_handler =>
            LoneShotAccepted(gage.gage_creation_time_array',
                             gage.mask_valid_data',
                             gage.jkam_gage_matchlist', jkam.shots_dict')]_vars

\* a lone GageScope event accepted at a distance of 10 ticks from JKAM shot 0
C7_Witness ==
    /\ Len(gage.gage_creation_time_array) = 1
    /\ gage.mask_valid_data = <<TRUE>>
    /\ gage.jkam_gage_matchlist = <<0>>
    /\ 0 \in DOMAIN jkam.time_temp_dict
    /\ Abs(gage.gage_creation_time_array[1] - jkam.time_temp_dict[0]) = 10

\* |gap - a/b| <= 0.3 * a/b, in integers (b > 0)
WithinThreeTenths(gap, avg_time_gap) ==
    10 * Abs(avg_time_gap.den * gap - avg_time_gap.num) <= 3 * avg_time_gap.num

\* the neighbour rule for Red Pitaya shot s against the JKAM handler ref
NeighbourRule(samples, ref, s) ==
    LET refTime(k) == ref.time_temp_dict[k]
        refCount == ref.shots_num
    IN  /\ ref.shots_dict[s]
        /\ (0 < s /\ s < refCount) =>
               WithinThreeTenths(refTime(s) - refTime(s - 1), ref.avg_time_gap)
        /\ (s < refCount - 1) =>
               WithinThreeTenths(refTime(s + 1) - refTime(s), ref.avg_time_gap)
        /\ \E j \in 1..Len(samples) :
               10 * ref.avg_time_gap.den * Abs(samples[j] - refTime(s))
                   <= 3 * ref.avg_time_gap.num

\* C8: a recompute of the Red Pitaya stream accepts a shot s that has a JKAM
\* counterpart exactly when JKAM shot s is spaceCorrect, its left gap (if
\* 0 < s < refCount) and its right gap (if s < refCount - 1) are within 30% of
\* JKAM's current avgGap, and the nearest of the shot's own samples is within
\* 0.3 * avgGap of refTime(s)
C8_NeighbourAcceptance ==
    [][redpitaya_handler' # redpitaya_handler =>
          \A s \in 0..(Len(rp.rp_times_list') - 1) :
              s \in DOMAIN jkam.shots_dict' =>
                  rp.mask_valid_data_rp'[s + 1] =
                      NeighbourRule(rp.rp_times_list'[s + 1],
                                    jkam_h5_file_handler', s)]_vars

\* a Red Pitaya shot rejected for its left JKAM gap alone: JKAM shot s is
\* spaceCorrect, the right gap (if any) is within 30%, a sample is within
\* tolerance, and the left gap is off by more than 30%
C8_Witness ==
    \E s \in 1..(Len(rp.rp_times_list) - 1) :
        /\ s \in DOMAIN jkam.shots_dict
        /\ rp.mask_valid_data_rp[s + 1] = FALSE
        /\ jkam.shots_dict[s] = TRUE
        /\ ~WithinThreeTenths(jkam.time_temp_dict[s] - jkam.time_temp_dict[s - 1],
                              jkam.avg_time_gap)
        /\ (s < jkam.shots_num - 1) =>
               WithinThreeTenths(jkam.time_temp_dict[s + 1] - jkam.time_temp_dict[s],
                                 jkam.avg_time_gap)
        /\ \E j \in 1..Len(rp.rp_times_list[s + 1]) :
               10 * jkam.avg_time_gap.den
                  * Abs(rp.rp_times_list[s + 1][j] - jkam.time_temp_dict[s])
                   <= 3 * jkam.avg_time_gap.num

\* c is the reset-on-rejection streak of the mask m
IsStreak(c, m) ==
    /\ Len(c) = Len(m)
    /\ \A i \in 1..Len(m) :
          /\ i \in DOMAIN c
          /\ c[i] = IF ~m[i] THEN 0
                    ELSE IF i = 1 THEN 1 ELSE c[i - 1] + 1
          /\ c[i] > 0 => m[i]
          /\ \E k \in 0..i :
                /\ c[i] = i - k
                /\ \A l \in (k + 1)..i : m[l]
                /\ k > 0 => ~m[k]

\* C9: for every stream the stored cumulative series is the
\* reset-on-rejection streak of the stream's acceptance mask
C9_CumulativeStreak ==
    /\ IsStreak(jkam.cumulative_data, JkamMask)
    /\ IsStreak(fpga.cumulative_data, fpga.mask_valid_data)
    /\ IsStreak(gage.cumulative_data, gage.mask_valid_data)
    /\ IsStreak(rp.cumulative_data, rp.mask_valid_data_rp)

\* the three result arrays of a handler
BinArrays(h) == <<h.mask_valid_data, h.jkam_fpga_matchlist, h.cumulative_data>>
GageArrays(h) == <<h.mask_valid_data, h.jkam_gage_matchlist, h.cumulative_data>>
RpArrays(h) == <<h.mask_valid_data_rp, h.jkam_rp_matchlist, h.cumulative_data>>

\* C10: a second recompute with the same own history and the same JKAM state
\* yields the same mask, matchIndex and cumulative arrays as the first, and
\* the arrays a recompute yields do not depend on those it finds
C10_Idempotent ==
    /\ \A once \in {rerun_acceptance(fpga, jkam)} :
          \A other \in {[fpga EXCEPT !.mask_valid_data = <<TRUE>>,
                                     !.jkam_fpga_matchlist = <<7>>,
                                     !.cumulative_data = <<9, 9, 9, 9, 9>>]} :
             /\ BinArrays(rerun_acceptance(once, jkam)) = BinArrays(once)
             /\ BinArrays(rerun_acceptance(other, jkam)) = BinArrays(once)
    /\ \A once \in {rerun_acceptance_gage(gage, jkam)} :
          \A other \in {[gage EXCEPT !.mask_valid_data = <<TRUE>>,
                                     !.jkam_gage_matchlist = <<7>>,
                                     !.cumulative_data = <<9, 9, 9, 9, 9>>]} :
             /\ GageArrays(rerun_acceptance_gage(once, jkam)) = GageArrays(once)
             /\ GageArrays(rerun_acceptance_gage(other, jkam)) = GageArrays(once)
    /\ \A once \in {rerun_acceptance_rp(rp, jkam)} :
          \A other \in {[rp EXCEPT !.mask_valid_data_rp = <<TRUE>>,
                                   !.jkam_rp_matchlist = <<7>>,
                                   !.cumulative_data = <<9, 9, 9, 9, 9>>]} :
             /\ RpArrays(rerun_acceptance_rp(once, jkam)) = RpArrays(once)
             /\ RpArrays(rerun_acceptance_rp(other, jkam)) = RpArrays(once)

\* the arrays each dependent handler holds are not those a recompute against
\* the present JKAM state yields: a recompute now replaces all three
C10_Witness ==
    /\ rerun_acceptance(fpga, jkam).mask_valid_data # fpga.mask_valid_data
    /\ rerun_acceptance_gage(gage, jkam).cumulative_data # gage.cumulative_data
    /\ rerun_acceptance_rp(rp, jkam).jkam_rp_matchlist # rp.jkam_rp_matchlist

\* the per-shot messages in stdout name every shot that mask rejects, once
DiagnosedRejections(mask, stdout) ==
    \A i \in 1..Len(mask) :
        mask[i] = FALSE =>
            Cardinality({j \in 1..Len(stdout) : stdout[j] = i - 1}) = 1

\* C11: the last recompute of every dependent stream printed one message
\* for every shot it rejected, whatever the reason of the rejection
C11_RejectionDiagnosed ==
    /\ DiagnosedRejections(fpga.mask_valid_data, fpga.stdout)
    /\ DiagnosedRejections(gage.mask_valid_data, gage.stdout)
    /\ DiagnosedRejections(rp.mask_valid_data_rp, rp.stdout)

\* the four handlers
handlers ==
    <<jkam_h5_file_handler, bin_handler, gage_h5_file_handler, redpitaya_handler>>

\* C12: a process_file that returns early (creation time unreadable, Red
\* Pitaya file missing or not loadable) leaves all four handlers as they
\* were, and a file stored afterwards gets the index that follows the last
\* stored one, however many files were dropped before it
C12_FailedIngest ==
    [][/\ console' # console => handlers' = handlers
       /\ jkam_h5_file_handler' # jkam_h5_file_handler =>
            /\ jkam.shots_num' = jkam.shots_num + 1
            /\ jkam.shots_num = Len(jkam.jkam_creation_time_array)
            /\ DOMAIN jkam.shots_dict' = DOMAIN jkam.shots_dict \cup {jkam.shots_num}
       /\ bin_handler' # bin_handler =>
            Len(fpga.mask_valid_data') = Len(fpga.fpga_creation_time_array) + 1
       /\ gage_h5_file_handler' # gage_h5_file_handler =>
            Len(gage.mask_valid_data') = Len(gage.gage_creation_time_array) + 1
       /\ redpitaya_handler' # redpitaya_handler =>
            Len(rp.mask_valid_data_rp') = Len(rp.rp_times_list) + 1]_vars

\* a file was dropped and files were stored in two streams
C12_Witness ==
    /\ Len(console) = 1
    /\ jkam.shots_num >= 1
    /\ Len(fpga.fpga_creation_time_array) >= 1
    /\ Len(rp.rp_times_list) >= 1

\* every shot accepted in mask has a JKAM shot of its number, and that JKAM
\* shot is space-correct
AcceptedOnSpaceCorrect(mask) ==
    \A i \in 1..Len(mask) :
        mask[i] = TRUE =>
            /\ (i - 1) \in DOMAIN jkam.shots_dict
            /\ jkam.shots_dict[i - 1] = TRUE

\* C13: in every state and for every dependent stream, an accepted shot s
\* has a JKAM shot s that is space-correct; a JKAM shot that is not
\* space-correct never has an accepted dependent shot at its number
C13_SpacingPropagates ==
    /\ AcceptedOnSpaceCorrect(fpga.mask_valid_data)
    /\ AcceptedOnSpaceCorrect(gage.mask_valid_data)
    /\ AcceptedOnSpaceCorrect(rp.mask_valid_data_rp)

\* JKAM shot 1 is not space-correct, FPGA shot 1 was recomputed after it
\* and rejected though near enough, and FPGA shot 0 is accepted
C13_Witness ==
    /\ jkam.shots_num >= 2
    /\ jkam.shots_dict[1] = FALSE
    /\ Len(fpga.mask_valid_data) = 2
    /\ fpga.mask_valid_data[1] = TRUE
    /\ fpga.avg_time_gap # Num(0)
    /\ fpga.mask_valid_data[2] = FALSE
    /\ RLeq(Num(NpMin(AbsDiffs(fpga.fpga_creation_time_array,
                                jkam.time_temp_dict[1]))),
            RMul(Tol02, fpga.avg_time_gap))

\* C14: when JKAM holds the creation times 0, 10, 20, 31 s and the FPGA
\* handler has stored the files of 0.05, 10.1, 19.9 s in this order, the
\* recompute of the last one leaves mask = [True, True, True] and
\* cumulative = [1, 2, 3] (times in twentieths of a second)
C14_ScenarioB ==
    [][(/\ bin_handler' # bin_handler
        /\ jkam.jkam_creation_time_array = <<0, 200, 400, 620>>
        /\ fpga.fpga_creation_time_array' = <<1, 202, 398>>)
       => /\ fpga.mask_valid_data' = <<TRUE, TRUE, TRUE>>
          /\ fpga.cumulative_data' = <<1, 2, 3>>]_vars

\* the scenario has run: the three FPGA files are accepted against the four
\* JKAM files, with the average gap 397/2
C14_Witness ==
    /\ jkam.jkam_creation_time_array = <<0, 200, 400, 620>>
    /\ fpga.fpga_creation_time_array = <<1, 202, 398>>
    /\ fpga.avg_time_gap = [num |-> 397, den |-> 2]
    /\ fpga.mask_valid_data = <<TRUE, TRUE, TRUE>>
    /\ fpga.jkam_fpga_matchlist = <<0, 1, 2>>

\* the JKAM shot numbers are 0 .. shots_num - 1 in both dicts, one for each
\* stored creation time, and time_temp_dict holds the times in arrival order
DenseJkamIndices ==
    /\ DOMAIN jkam.shots_dict = 0..(jkam.shots_num - 1)
    /\ DOMAIN jkam.time_temp_dict = 0..(jkam.shots_num - 1)
    /\ jkam.shots_num = Len(jkam.jkam_creation_time_array)
    /\ \A k \in 0..(jkam.shots_num - 1) :
           jkam.time_temp_dict[k] = jkam.jkam_creation_time_array[k + 1]

\* the arrays of a dependent handler have one entry for each stored file
DenseIndices(own, mask, matchlist) ==
    /\ Len(mask) = Len(own)
    /\ Len(matchlist) = Len(own)

\* after holds one event more than before, at the end, and the events of
\* before at their places
StoredLast(before, after) ==
    /\ Len(after) = Len(before) + 1
    /\ \A k \in 1..Len(before) : after[k] = before[k]

\* every process_file stores its file at the index after the last one and
\* leaves the stored ones in place
ArrivalOrdered ==
    /\ jkam_h5_file_handler' # jkam_h5_file_handler =>
         /\ StoredLast(jkam.jkam_creation_time_array,
                       jkam.jkam_creation_time_array')
         /\ \A k \in DOMAIN jkam.shots_dict :
                /\ jkam.shots_dict'[k] = jkam.shots_dict[k]
                /\ jkam.time_temp_dict'[k] = jkam.time_temp_dict[k]
    /\ bin_handler' # bin_handler =>
         StoredLast(fpga.fpga_creation_time_array,
                    fpga.fpga_creation_time_array')
    /\ gage_h5_file_handler' # gage_h5_file_handler =>
         StoredLast(gage.gage_creation_time_array,
                    gage.gage_creation_time_array')
    /\ redpitaya_handler' # redpitaya_handler =>
         StoredLast(rp.rp_times_list, rp.rp_times_list')

\* C15: in every state the JKAM dicts have the keys 0 .. shots_num - 1 and
\* shots_num is the length of the history, and each dependent handler has
\* one mask entry for each stored file; every process_file stores its file
\* at the index after the last one and leaves the stored ones in place
C15_DenseIndices ==
    /\ [](/\ DenseJkamIndices
          /\ DenseIndices(fpga.fpga_creation_time_array, fpga.mask_valid_data,
                          fpga.jkam_fpga_matchlist)
          /\ DenseIndices(gage.gage_creation_time_array, gage.mask_valid_data,
                          gage.jkam_gage_matchlist)
          /\ DenseIndices(rp.rp_times_list, rp.mask_valid_data_rp,
                          rp.jkam_rp_matchlist))
    /\ [][ArrivalOrdered]_vars

\* three JKAM files and two FPGA files with different creation times are
\* stored in their order of arrival
C15_Witness ==
    /\ jkam.shots_num = 3
    /\ jkam.time_temp_dict[0] = 10
    /\ jkam.time_temp_dict[2] = 4
    /\ fpga.fpga_creation_time_array = <<5, 0>>

\* a step that stores a file in a dependent handler leaves the JKAM handler
\* as it was, and a step that changes the JKAM handler stores no dependent
\* file
ReferenceReadOnly ==
    /\ (\/ bin_handler' # bin_handler
        \/ gage_h5_file_handler' # gage_h5_file_handler
        \/ redpitaya_handler' # redpitaya_handler)
       => jkam_h5_file_handler' = jkam_h5_file_handler
    /\ jkam_h5_file_handler' # jkam_h5_file_handler
       => /\ Len(jkam.jkam_creation_time_array')
               = Len(jkam.jkam_creation_time_array) + 1
          /\ fpga.fpga_creation_time_array' = fpga.fpga_creation_time_array
          /\ gage.gage_creation_time_array' = gage.gage_creation_time_array
          /\ rp.rp_times_list' = rp.rp_times_list

\* C16: process_file of the FPGA, GageScope or Red Pitaya handler, with the
\* recompute it runs, leaves every field of the JKAM handler unchanged; the
\* JKAM handler changes only when a JKAM file is stored
C16_ReferenceUnchanged == [][ReferenceReadOnly]_vars

\* every dependent handler has recomputed while JKAM files were stored: its
\* shot 0 found JKAM data and was accepted
C16_Witness ==
    /\ jkam.shots_num >= 2
    /\ jkam.avg_time_gap # Num(0)
    /\ Len(fpga.fpga_creation_time_array) >= 1
    /\ Len(gage.gage_creation_time_array) >= 1
    /\ Len(rp.rp_times_list) >= 1
    /\ fpga.mask_valid_data[1] = TRUE
    /\ gage.color_array[1] = "g"
    /\ rp.color_array[1] = "g"

\* C17: when the FPGA and the GageScope handler are given the same creation
\* times at the same places between the same JKAM files, they hold the same
\* avg_time_gap, mask, match list, colours and cumulative data after every
\* step
C17_GageAsBin ==
    /\ gage.gage_creation_time_array = fpga.fpga_creation_time_array
    /\ gage.start_time = fpga.start_time
    /\ gage.avg_time_gap = fpga.avg_time_gap
    /\ gage.mask_valid_data = fpga.mask_valid_data
    /\ gage.jkam_gage_matchlist = fpga.jkam_fpga_matchlist
    /\ gage.color_array = fpga.color_array
    /\ gage.cumulative_data = fpga.cumulative_data

\* both handlers hold two files a non-zero gap apart, one shot accepted and
\* one rejected
C17_Witness ==
    /\ Len(gage.gage_creation_time_array) = 2
    /\ Len(fpga.fpga_creation_time_array) = 2
    /\ gage.avg_time_gap # Num(0)
    /\ gage.mask_valid_data = <<TRUE, FALSE>>
    /\ fpga.cumulative_data = <<1, 0>>
    /\ jkam.shots_num >= 2

\* the shot of a dependent handler whose JKAM counterpart the step stores,
\* if the handler holds one, is rejected before and after the step
StaysRejected(mask_before, mask_after) ==
    LET i == jkam.shots_num + 1
    IN  i \in DOMAIN mask_before =>
            /\ mask_before[i] = FALSE
            /\ mask_after[i] = FALSE

\* a step changes one handler at most, and storing a JKAM file leaves a
\* dependent shot that was waiting for it rejected
OwnIngestOnly ==
    /\ jkam_h5_file_handler' # jkam_h5_file_handler =>
         /\ UNCHANGED <<bin_handler, gage_h5_file_handler, redpitaya_handler>>
         /\ StaysRejected(fpga.mask_valid_data, fpga.mask_valid_data')
         /\ StaysRejected(gage.mask_valid_data, gage.mask_valid_data')
         /\ StaysRejected(rp.mask_valid_data_rp, rp.mask_valid_data_rp')
    /\ bin_handler' # bin_handler =>
         UNCHANGED <<gage_h5_file_handler, redpitaya_handler>>
    /\ gage_h5_file_handler' # gage_h5_file_handler =>
         UNCHANGED <<bin_handler, redpitaya_handler>>
    /\ redpitaya_handler' # redpitaya_handler =>
         UNCHANGED <<bin_handler, gage_h5_file_handler>>

\* C18: storing a JKAM file leaves the three dependent handlers unchanged,
\* and storing a file in one dependent handler leaves the other two
\* unchanged; a dependent shot stored before its JKAM counterpart is still
\* rejected when the counterpart has been stored
C18_OwnIngestOnly == [][OwnIngestOnly]_vars

\* FPGA shot 0 was stored before JKAM shot 0 and is still rejected, though
\* a recompute now would accept it
C18_Witness ==
    /\ jkam.shots_num >= 1
    /\ Len(fpga.mask_valid_data) >= 1
    /\ fpga.mask_valid_data[1] = FALSE
    /\ rerun_acceptance(fpga, jkam).mask_valid_data[1] = TRUE

\* the creation times in a never decrease
NonDecreasing(a) == \A k \in 1..(Len(a) - 1) : a[k] <= a[k + 1]

\* C19: while the JKAM creation times have arrived in non-decreasing order,
\* JKAM shots 0 and 1 are space-correct whatever their times; a shot that
\* is not space-correct has a number of 2 or more
C19_FirstTwoSpaceCorrect ==
    NonDecreasing(jkam.jkam_creation_time_array) =>
        \A k \in DOMAIN jkam.shots_dict :
            jkam.shots_dict[k] = FALSE => k >= 2

\* non-decreasing JKAM times with shots 0 and 1 a non-zero gap apart and
\* shot 2 not space-correct
C19_Witness ==
    /\ jkam.shots_num >= 3
    /\ NonDecreasing(jkam.jkam_creation_time_array)
    /\ jkam.time_temp_dict[1] > jkam.time_temp_dict[0]
    /\ jkam.shots_dict[1] = TRUE
    /\ jkam.shots_dict[2] = FALSE

=============================================================================
